---- MODULE Spec2Model ----
(***************************************************************************)
(* Model of zeroarg (src/lib.rs): the command line tokenizer               *)
(* parse_arguments and its classification routines, at the granularity of  *)
(* one scanner character per step.  Text is a sequence of one-character    *)
(* strings, so "--a" is <<"-", "-", "a">>.                                  *)
(***************************************************************************)
EXTENDS Integers, Sequences, FiniteSets, TLC

\* Bounds of the checked inputs.
\* MaxLen: characters of a token parsed on its own; MaxTokens, MaxChars:
\* tokens, and characters in total, of a longer input.
MaxLen == 6
MaxTokens == 3
MaxChars == 3

\* The characters tokens are made of: the three special ones and two others.
Chars == {"-", "+", "=", "a", "b"}

VARIABLES
  input,      \* the token sequence handed to parse_arguments
  args,       \* the tokens the args iterator has not yielded yet
  iter,       \* the CharIter of the token being classified
  arguments,  \* the output vector
  option,     \* parse_option's / parse_argument's name buffer
  attribute,  \* parse_attribute_value's attribute name
  value,      \* parse_attribute_value's value buffer
  pc,         \* the routine the parse is in
  depth,      \* number of active parse_option frames
  result,     \* what parse_arguments returned
  mark,       \* history: Len(arguments) when the current token was taken
  previous    \* history: what the call before this one returned

vars == <<input, args, iter, arguments, option, attribute, value, pc, depth, result,
          mark, previous>>

----------------------------------------------------------------------------
\* Data model

None == "None"

Operand(text) == <<"Operand", text>>
Attribute(name, val) == <<"Attribute", name, val>>
Flag(name) == <<"Flag", name>>

Pending == [tag |-> "Pending", val |-> <<>>, err |-> "-"]
Ok(v) == [tag |-> "Ok", val |-> v, err |-> "-"]
Err(e) == [tag |-> "Err", val |-> <<>>, err |-> e]

\* CharIter: the characters not pulled yet and the one character lookahead.
CharIterNext(it) ==
  IF it.iter = <<>> THEN [iter |-> <<>>, c |-> None]
  ELSE [iter |-> Tail(it.iter), c |-> Head(it.iter)]

CharIterNew(chars) == CharIterNext([iter |-> chars, c |-> None])

NoIter == CharIterNew(<<>>)

----------------------------------------------------------------------------
\* Inputs: one token of at most MaxLen characters, or at most MaxTokens
\* tokens of at most MaxChars characters in total.
\* An input is a text cut into tokens of the lengths lens[1], lens[2], ...

RECURSIVE Sum(_, _)
Sum(lens, k) == IF k = 0 THEN 0 ELSE lens[k] + Sum(lens, k - 1)

Cut(text, lens) ==
  [i \in 1..Len(lens) |-> SubSeq(text, Sum(lens, i - 1) + 1, Sum(lens, i))]

InBounds(k, n) ==
  \/ k <= 1 /\ n <= MaxLen
  \/ k <= MaxTokens /\ n <= MaxChars

MaxOf(a, b) == IF a >= b THEN a ELSE b

IsInput(s) ==
  /\ InBounds(Len(s), Sum([i \in 1..Len(s) |-> Len(s[i])], Len(s)))
  /\ \A i \in 1..Len(s) : \A j \in 1..Len(s[i]) : s[i][j] \in Chars

Init ==
  /\ \E k \in 0..MaxOf(MaxTokens, 1), n \in 0..MaxOf(MaxLen, MaxChars) :
       /\ InBounds(k, n)
       /\ \E lens \in [1..k -> 0..n] :
            /\ Sum(lens, k) = n
            /\ \E text \in [1..n -> Chars] : input = Cut(text, lens)
  /\ args = input
  /\ iter = NoIter
  /\ arguments = <<>>
  /\ option = <<>>
  /\ attribute = <<>>
  /\ value = <<>>
  /\ pc = "for"
  /\ depth = 0
  /\ result = Pending
  /\ mark = 0
  /\ previous = Pending

----------------------------------------------------------------------------
\* Leaving a routine

\* A routine returns Ok(()) to the classification loop.
ReturnToLoop(out) ==
  /\ pc' = "for"
  /\ arguments' = out
  /\ iter' = NoIter
  /\ option' = <<>>
  /\ attribute' = <<>>
  /\ value' = <<>>
  /\ depth' = 0
  /\ UNCHANGED <<input, mark, previous, args, result>>

\* ReturnErr dropping the error and going on with the next token.
ReturnErr_Swallow(e) == ReturnToLoop(arguments)

\* A routine returns Err(e); every caller hands it on with `?`.
ReturnErr(e) ==
  /\ pc' = "done"
  /\ result' = Err(e)
  /\ arguments' = <<>>
  /\ iter' = NoIter
  /\ option' = <<>>
  /\ attribute' = <<>>
  /\ value' = <<>>
  /\ depth' = 0
  /\ UNCHANGED <<input, mark, previous, args>>

----------------------------------------------------------------------------
\* parse_arguments

\* Dispatch without the check that a character follows the prefix "+".
Dispatch_PlusOption(arg) ==
  LET it0 == CharIterNew(arg)
      it1 == CharIterNext(it0)
      it2 == CharIterNext(it1)
  IN IF it0.c # None
     THEN IF it0.c = "-"
          THEN IF it1.c # None
               THEN IF it1.c = "-"
                    THEN IF it2.c # None
                         THEN [pc |-> "parse_option", iter |-> it2]
                         ELSE [pc |-> "rest", iter |-> NoIter]
                    ELSE [pc |-> "parse_short_options", iter |-> it1]
               ELSE [pc |-> "rest", iter |-> NoIter]
          ELSE IF it0.c = "+"
               THEN [pc |-> "parse_option", iter |-> it1]
               ELSE [pc |-> "parse_argument", iter |-> it0]
     ELSE [pc |-> "for", iter |-> NoIter]

\* The prefix examination of one token: the routine it is handed to ("rest"
\* is the break, "for" the empty token) and the scanner as handed over.
Dispatch(arg) ==
  LET it0 == CharIterNew(arg)
      it1 == CharIterNext(it0)
      it2 == CharIterNext(it1)
  IN IF it0.c # None
     THEN IF it0.c = "-"
          THEN IF it1.c # None
               THEN IF it1.c = "-"
                    THEN IF it2.c # None
                         THEN [pc |-> "parse_option", iter |-> it2]
                         ELSE [pc |-> "rest", iter |-> NoIter]
                    ELSE [pc |-> "parse_short_options", iter |-> it1]
               ELSE [pc |-> "rest", iter |-> NoIter]
          ELSE IF it0.c = "+"
               THEN IF it1.c # None
                    THEN [pc |-> "parse_option", iter |-> it1]
                    ELSE [pc |-> "rest", iter |-> NoIter]
               ELSE [pc |-> "parse_argument", iter |-> it0]
     ELSE [pc |-> "for", iter |-> NoIter]

\* ParseArguments_for passing the terminator token itself through as an Operand.
ParseArguments_for_EmitTerminator ==
  /\ pc = "for"
  /\ IF args = <<>>
     THEN /\ pc' = "rest"
          /\ UNCHANGED <<input, mark, previous, args, iter, arguments, option, attribute, value, depth, result>>
     ELSE LET d == Dispatch(Head(args))
          IN /\ args' = Tail(args)
             /\ pc' = d.pc
             /\ iter' = d.iter
             /\ arguments' = IF d.pc = "for" THEN Append(arguments, Operand(<<>>))
                             ELSE IF d.pc = "rest"
                                  THEN Append(arguments, Operand(Head(args)))
                                  ELSE arguments
             /\ depth' = IF d.pc = "parse_option" THEN 1 ELSE 0
             /\ mark' = Len(arguments)
             /\ UNCHANGED <<input, previous, option, attribute, value, result>>

\* ParseArguments_for taking the first token, the program name, as a plain
\* argument whatever its prefix.
ParseArguments_for_ProgramName ==
  /\ pc = "for"
  /\ IF args = <<>>
     THEN /\ pc' = "rest"
          /\ UNCHANGED <<input, mark, previous, args, iter, arguments, option, attribute, value, depth, result>>
     ELSE LET d == IF Len(args) = Len(input)
                   THEN [pc |-> "parse_argument", iter |-> CharIterNew(Head(args))]
                   ELSE Dispatch(Head(args))
          IN /\ args' = Tail(args)
             /\ pc' = d.pc
             /\ iter' = d.iter
             /\ arguments' = IF d.pc = "for" THEN Append(arguments, Operand(<<>>))
                             ELSE arguments
             /\ depth' = IF d.pc = "parse_option" THEN 1 ELSE 0
             /\ mark' = Len(arguments)
             /\ UNCHANGED <<input, previous, option, attribute, value, result>>

\* One iteration of the first loop over args.
ParseArguments_for ==
  /\ pc = "for"
  /\ IF args = <<>>
     THEN /\ pc' = "rest"
          /\ UNCHANGED <<input, mark, previous, args, iter, arguments, option, attribute, value, depth, result>>
     ELSE LET d == Dispatch(Head(args))
          IN /\ args' = Tail(args)
             /\ pc' = d.pc
             /\ iter' = d.iter
             /\ arguments' = IF d.pc = "for" THEN Append(arguments, Operand(<<>>))
                             ELSE arguments
             /\ depth' = IF d.pc = "parse_option" THEN 1 ELSE 0
             /\ mark' = Len(arguments)
             /\ UNCHANGED <<input, previous, option, attribute, value, result>>

\* ParseArguments_rest putting each remaining token in front of the output.
ParseArguments_rest_Prepend ==
  /\ pc = "rest"
  /\ args # <<>>
  /\ arguments' = <<Operand(Head(args))>> \o arguments
  /\ args' = Tail(args)
  /\ UNCHANGED <<input, mark, previous, iter, option, attribute, value, pc, depth, result>>

\* One iteration of the second loop over args.
ParseArguments_rest ==
  /\ pc = "rest"
  /\ args # <<>>
  /\ arguments' = Append(arguments, Operand(Head(args)))
  /\ args' = Tail(args)
  /\ UNCHANGED <<input, mark, previous, iter, option, attribute, value, pc, depth, result>>

\* Ok(arguments)
ParseArguments_return ==
  /\ pc = "rest"
  /\ args = <<>>
  /\ result' = Ok(arguments)
  /\ arguments' = <<>>
  /\ pc' = "done"
  /\ UNCHANGED <<input, mark, previous, args, iter, option, attribute, value, depth>>

----------------------------------------------------------------------------
\* ParseShortOptions leaving the loop without emitting the last flag.
ParseShortOptions_DropLast ==
  /\ pc = "parse_short_options"
  /\ IF iter.c # None
     THEN LET c == iter.c
              it1 == CharIterNext(iter)
          IN IF c = "="
             THEN ReturnErr("EmptyAttribute")
             ELSE IF it1.c # None
                  THEN IF it1.c = "="
                       THEN /\ iter' = CharIterNext(it1)
                            /\ attribute' = <<c>>
                            /\ value' = <<>>
                            /\ pc' = "parse_attribute_value"
                            /\ UNCHANGED <<input, mark, previous, args, arguments, option, depth, result>>
                       ELSE /\ arguments' = Append(arguments, Flag(<<c>>))
                            /\ iter' = it1
                            /\ UNCHANGED <<input, mark, previous, args, option, attribute, value, pc, depth, result>>
                  ELSE ReturnToLoop(arguments)
     ELSE ReturnToLoop(arguments)

\* ParseShortOptions not advancing past the '=' before the value capture.
ParseShortOptions_KeepEquals ==
  /\ pc = "parse_short_options"
  /\ IF iter.c # None
     THEN LET c == iter.c
              it1 == CharIterNext(iter)
          IN IF c = "="
             THEN ReturnErr("EmptyAttribute")
             ELSE IF it1.c # None
                  THEN IF it1.c = "="
                       THEN /\ iter' = it1
                            /\ attribute' = <<c>>
                            /\ value' = <<>>
                            /\ pc' = "parse_attribute_value"
                            /\ UNCHANGED <<input, mark, previous, args, arguments, option, depth, result>>
                       ELSE /\ arguments' = Append(arguments, Flag(<<c>>))
                            /\ iter' = it1
                            /\ UNCHANGED <<input, mark, previous, args, option, attribute, value, pc, depth, result>>
                  ELSE ReturnToLoop(Append(arguments, Flag(<<c>>)))
     ELSE ReturnToLoop(arguments)

\* parse_short_options: one iteration of its loop.
ParseShortOptions ==
  /\ pc = "parse_short_options"
  /\ IF iter.c # None
     THEN LET c == iter.c
              it1 == CharIterNext(iter)
          IN IF c = "="
             THEN ReturnErr("EmptyAttribute")
             ELSE IF it1.c # None
                  THEN IF it1.c = "="
                       THEN /\ iter' = CharIterNext(it1)
                            /\ attribute' = <<c>>
                            /\ value' = <<>>
                            /\ pc' = "parse_attribute_value"
                            /\ UNCHANGED <<input, mark, previous, args, arguments, option, depth, result>>
                       ELSE /\ arguments' = Append(arguments, Flag(<<c>>))
                            /\ iter' = it1
                            /\ UNCHANGED <<input, mark, previous, args, option, attribute, value, pc, depth, result>>
                  ELSE ReturnToLoop(Append(arguments, Flag(<<c>>)))
     ELSE ReturnToLoop(arguments)

----------------------------------------------------------------------------
\* ParseOption_first reporting a leading '=' as EmptyFlag.
ParseOption_first_EqualsFlag ==
  /\ pc = "parse_option"
  /\ IF iter.c # None
     THEN LET c == iter.c
          IN IF c = "+"
             THEN ReturnErr("EmptyFlag")
             ELSE IF c = "="
                  THEN ReturnErr("EmptyFlag")
                  ELSE /\ option' = <<c>>
                       /\ iter' = CharIterNext(iter)
                       /\ pc' = "parse_option_loop"
                       /\ UNCHANGED <<input, mark, previous, args, arguments, attribute, value, depth, result>>
     ELSE ReturnErr("EmptyFlag")

\* ParseOption_first accepting an exhausted token.
ParseOption_first_EndOk ==
  /\ pc = "parse_option"
  /\ IF iter.c # None
     THEN LET c == iter.c
          IN IF c = "+"
             THEN ReturnErr("EmptyFlag")
             ELSE IF c = "="
                  THEN ReturnErr("EmptyAttribute")
                  ELSE /\ option' = <<c>>
                       /\ iter' = CharIterNext(iter)
                       /\ pc' = "parse_option_loop"
                       /\ UNCHANGED <<input, mark, previous, args, arguments, attribute, value, depth, result>>
     ELSE ReturnToLoop(arguments)

\* ParseOption_first taking a leading '=' as the end of an empty name.
ParseOption_first_NoName ==
  /\ pc = "parse_option"
  /\ IF iter.c # None
     THEN LET c == iter.c
          IN IF c = "+"
             THEN ReturnErr("EmptyFlag")
             ELSE IF c = "="
                  THEN /\ iter' = CharIterNext(iter)
                       /\ attribute' = <<>>
                       /\ value' = <<>>
                       /\ pc' = "parse_attribute_value"
                       /\ UNCHANGED <<input, mark, previous, args, arguments, option, depth, result>>
                  ELSE /\ option' = <<c>>
                       /\ iter' = CharIterNext(iter)
                       /\ pc' = "parse_option_loop"
                       /\ UNCHANGED <<input, mark, previous, args, arguments, attribute, value, depth, result>>
     ELSE ReturnErr("EmptyFlag")

\* ParseOption_first without the test for a leading '=', which becomes the
\* first character of the name.
ParseOption_first_EqualsName ==
  /\ pc = "parse_option"
  /\ IF iter.c # None
     THEN LET c == iter.c
          IN IF c = "+"
             THEN ReturnErr("EmptyFlag")
             ELSE /\ option' = <<c>>
                  /\ iter' = CharIterNext(iter)
                  /\ pc' = "parse_option_loop"
                  /\ UNCHANGED <<input, mark, previous, args, arguments, attribute, value, depth, result>>
     ELSE ReturnErr("EmptyFlag")

\* parse_option: the first character.
ParseOption_first ==
  /\ pc = "parse_option"
  /\ IF iter.c # None
     THEN LET c == iter.c
          IN IF c = "+"
             THEN ReturnErr("EmptyFlag")
             ELSE IF c = "="
                  THEN ReturnErr("EmptyAttribute")
                  ELSE /\ option' = <<c>>
                       /\ iter' = CharIterNext(iter)
                       /\ pc' = "parse_option_loop"
                       /\ UNCHANGED <<input, mark, previous, args, arguments, attribute, value, depth, result>>
     ELSE ReturnErr("EmptyFlag")

\* ParseOption_loop emitting an Operand at the end of the token.
ParseOption_loop_EndOperand ==
  /\ pc = "parse_option_loop"
  /\ IF iter.c # None
     THEN LET c == iter.c
          IN IF c = "+"
             THEN /\ arguments' = Append(arguments, Flag(option))
                  /\ iter' = CharIterNext(iter)
                  /\ option' = <<>>
                  /\ pc' = "parse_option"
                  /\ depth' = depth + 1
                  /\ UNCHANGED <<input, mark, previous, args, attribute, value, result>>
             ELSE IF c = "="
                  THEN /\ iter' = CharIterNext(iter)
                       /\ attribute' = option
                       /\ option' = <<>>
                       /\ value' = <<>>
                       /\ pc' = "parse_attribute_value"
                       /\ UNCHANGED <<input, mark, previous, args, arguments, depth, result>>
                  ELSE /\ option' = Append(option, c)
                       /\ iter' = CharIterNext(iter)
                       /\ UNCHANGED <<input, mark, previous, args, arguments, attribute, value, pc, depth, result>>
     ELSE ReturnToLoop(Append(arguments, Operand(option)))

\* ParseOption_loop not emitting the name a '+' closes.
ParseOption_loop_ChainNoFlag ==
  /\ pc = "parse_option_loop"
  /\ IF iter.c # None
     THEN LET c == iter.c
          IN IF c = "+"
             THEN /\ arguments' = arguments
                  /\ iter' = CharIterNext(iter)
                  /\ option' = <<>>
                  /\ pc' = "parse_option"
                  /\ depth' = depth + 1
                  /\ UNCHANGED <<input, mark, previous, args, attribute, value, result>>
             ELSE IF c = "="
                  THEN /\ iter' = CharIterNext(iter)
                       /\ attribute' = option
                       /\ option' = <<>>
                       /\ value' = <<>>
                       /\ pc' = "parse_attribute_value"
                       /\ UNCHANGED <<input, mark, previous, args, arguments, depth, result>>
                  ELSE /\ option' = Append(option, c)
                       /\ iter' = CharIterNext(iter)
                       /\ UNCHANGED <<input, mark, previous, args, arguments, attribute, value, pc, depth, result>>
     ELSE ReturnToLoop(Append(arguments, Flag(option)))

\* parse_option: one iteration of its loop.
ParseOption_loop ==
  /\ pc = "parse_option_loop"
  /\ IF iter.c # None
     THEN LET c == iter.c
          IN IF c = "+"
             THEN /\ arguments' = Append(arguments, Flag(option))
                  /\ iter' = CharIterNext(iter)
                  /\ option' = <<>>
                  /\ pc' = "parse_option"
                  /\ depth' = depth + 1
                  /\ UNCHANGED <<input, mark, previous, args, attribute, value, result>>
             ELSE IF c = "="
                  THEN /\ iter' = CharIterNext(iter)
                       /\ attribute' = option
                       /\ option' = <<>>
                       /\ value' = <<>>
                       /\ pc' = "parse_attribute_value"
                       /\ UNCHANGED <<input, mark, previous, args, arguments, depth, result>>
                  ELSE /\ option' = Append(option, c)
                       /\ iter' = CharIterNext(iter)
                       /\ UNCHANGED <<input, mark, previous, args, arguments, attribute, value, pc, depth, result>>
     ELSE ReturnToLoop(Append(arguments, Flag(option)))

----------------------------------------------------------------------------
\* parse_argument: the first character (its buffer `argument` is kept in
\* the variable option).
ParseArgument_first ==
  /\ pc = "parse_argument"
  /\ IF iter.c # None
     THEN LET c == iter.c
          IN IF c = "+"
             THEN ReturnErr("EmptyFlag")
             ELSE IF c = "="
                  THEN ReturnErr("EmptyAttribute")
                  ELSE /\ option' = <<c>>
                       /\ iter' = CharIterNext(iter)
                       /\ pc' = "parse_argument_loop"
                       /\ UNCHANGED <<input, mark, previous, args, arguments, attribute, value, depth, result>>
     ELSE ReturnToLoop(Append(arguments, Operand(<<>>)))

\* ParseArgument_loop emitting a Flag at the end of the token.
ParseArgument_loop_EndFlag ==
  /\ pc = "parse_argument_loop"
  /\ IF iter.c # None
     THEN LET c == iter.c
          IN IF c = "+"
             THEN /\ arguments' = Append(arguments, Flag(option))
                  /\ iter' = CharIterNext(iter)
                  /\ option' = <<>>
                  /\ pc' = "parse_option"
                  /\ depth' = depth + 1
                  /\ UNCHANGED <<input, mark, previous, args, attribute, value, result>>
             ELSE IF c = "="
                  THEN /\ iter' = CharIterNext(iter)
                       /\ attribute' = option
                       /\ option' = <<>>
                       /\ value' = <<>>
                       /\ pc' = "parse_attribute_value"
                       /\ UNCHANGED <<input, mark, previous, args, arguments, depth, result>>
                  ELSE /\ option' = Append(option, c)
                       /\ iter' = CharIterNext(iter)
                       /\ UNCHANGED <<input, mark, previous, args, arguments, attribute, value, pc, depth, result>>
     ELSE ReturnToLoop(Append(arguments, Flag(option)))

\* ParseArgument_loop keeping an ordinary character without advancing past it.
ParseArgument_loop_NoAdvance ==
  /\ pc = "parse_argument_loop"
  /\ IF iter.c # None
     THEN LET c == iter.c
          IN IF c = "+"
             THEN /\ arguments' = Append(arguments, Flag(option))
                  /\ iter' = CharIterNext(iter)
                  /\ option' = <<>>
                  /\ pc' = "parse_option"
                  /\ depth' = depth + 1
                  /\ UNCHANGED <<input, mark, previous, args, attribute, value, result>>
             ELSE IF c = "="
                  THEN /\ iter' = CharIterNext(iter)
                       /\ attribute' = option
                       /\ option' = <<>>
                       /\ value' = <<>>
                       /\ pc' = "parse_attribute_value"
                       /\ UNCHANGED <<input, mark, previous, args, arguments, depth, result>>
                  ELSE /\ option' = Append(option, c)
                       /\ UNCHANGED <<input, mark, previous, args, iter, arguments, attribute, value, pc, depth, result>>
     ELSE ReturnToLoop(Append(arguments, Operand(option)))

\* ParseArgument_loop emitting the name before the first '+' as an Operand.
ParseArgument_loop_ChainOperand ==
  /\ pc = "parse_argument_loop"
  /\ IF iter.c # None
     THEN LET c == iter.c
          IN IF c = "+"
             THEN /\ arguments' = Append(arguments, Operand(option))
                  /\ iter' = CharIterNext(iter)
                  /\ option' = <<>>
                  /\ pc' = "parse_option"
                  /\ depth' = depth + 1
                  /\ UNCHANGED <<input, mark, previous, args, attribute, value, result>>
             ELSE IF c = "="
                  THEN /\ iter' = CharIterNext(iter)
                       /\ attribute' = option
                       /\ option' = <<>>
                       /\ value' = <<>>
                       /\ pc' = "parse_attribute_value"
                       /\ UNCHANGED <<input, mark, previous, args, arguments, depth, result>>
                  ELSE /\ option' = Append(option, c)
                       /\ iter' = CharIterNext(iter)
                       /\ UNCHANGED <<input, mark, previous, args, arguments, attribute, value, pc, depth, result>>
     ELSE ReturnToLoop(Append(arguments, Operand(option)))

\* ParseArgument_loop emitting the text before '=' as an Operand as well.
ParseArgument_loop_OperandAndValue ==
  /\ pc = "parse_argument_loop"
  /\ IF iter.c # None
     THEN LET c == iter.c
          IN IF c = "+"
             THEN /\ arguments' = Append(arguments, Flag(option))
                  /\ iter' = CharIterNext(iter)
                  /\ option' = <<>>
                  /\ pc' = "parse_option"
                  /\ depth' = depth + 1
                  /\ UNCHANGED <<input, mark, previous, args, attribute, value, result>>
             ELSE IF c = "="
                  THEN /\ iter' = CharIterNext(iter)
                       /\ attribute' = option
                       /\ option' = <<>>
                       /\ value' = <<>>
                       /\ pc' = "parse_attribute_value"
                       /\ arguments' = Append(arguments, Operand(option))
                       /\ UNCHANGED <<input, mark, previous, args, depth, result>>
                  ELSE /\ option' = Append(option, c)
                       /\ iter' = CharIterNext(iter)
                       /\ UNCHANGED <<input, mark, previous, args, arguments, attribute, value, pc, depth, result>>
     ELSE ReturnToLoop(Append(arguments, Operand(option)))

\* parse_argument: one iteration of its loop.
ParseArgument_loop ==
  /\ pc = "parse_argument_loop"
  /\ IF iter.c # None
     THEN LET c == iter.c
          IN IF c = "+"
             THEN /\ arguments' = Append(arguments, Flag(option))
                  /\ iter' = CharIterNext(iter)
                  /\ option' = <<>>
                  /\ pc' = "parse_option"
                  /\ depth' = depth + 1
                  /\ UNCHANGED <<input, mark, previous, args, attribute, value, result>>
             ELSE IF c = "="
                  THEN /\ iter' = CharIterNext(iter)
                       /\ attribute' = option
                       /\ option' = <<>>
                       /\ value' = <<>>
                       /\ pc' = "parse_attribute_value"
                       /\ UNCHANGED <<input, mark, previous, args, arguments, depth, result>>
                  ELSE /\ option' = Append(option, c)
                       /\ iter' = CharIterNext(iter)
                       /\ UNCHANGED <<input, mark, previous, args, arguments, attribute, value, pc, depth, result>>
     ELSE ReturnToLoop(Append(arguments, Operand(option)))

----------------------------------------------------------------------------
\* ParseAttributeValue ending the value at a '+'.
ParseAttributeValue_StopAtPlus ==
  /\ pc = "parse_attribute_value"
  /\ IF iter.c # None /\ iter.c # "+"
     THEN /\ value' = Append(value, iter.c)
          /\ iter' = CharIterNext(iter)
          /\ UNCHANGED <<input, mark, previous, args, arguments, option, attribute, pc, depth, result>>
     ELSE ReturnToLoop(Append(arguments, Attribute(attribute, value)))

\* ParseAttributeValue leaving a further '=' out of the value.
ParseAttributeValue_SkipEquals ==
  /\ pc = "parse_attribute_value"
  /\ IF iter.c # None
     THEN /\ value' = IF iter.c = "=" THEN value ELSE Append(value, iter.c)
          /\ iter' = CharIterNext(iter)
          /\ UNCHANGED <<input, mark, previous, args, arguments, option, attribute, pc, depth, result>>
     ELSE ReturnToLoop(Append(arguments, Attribute(attribute, value)))

\* parse_attribute_value: one iteration of its loop.
ParseAttributeValue ==
  /\ pc = "parse_attribute_value"
  /\ IF iter.c # None
     THEN /\ value' = Append(value, iter.c)
          /\ iter' = CharIterNext(iter)
          /\ UNCHANGED <<input, mark, previous, args, arguments, option, attribute, pc, depth, result>>
     ELSE ReturnToLoop(Append(arguments, Attribute(attribute, value)))

----------------------------------------------------------------------------
\* The routines as functions of the text the scanner holds at their entry:
\* Ok(the arguments they push) or Err(the error they return).

\* The first position after the first character that holds '+' or '=', or 0.
FirstSpecial(s) ==
  IF \E i \in 2..Len(s) : s[i] \in {"+", "="}
  THEN CHOOSE i \in 2..Len(s) : s[i] \in {"+", "="} /\ \A j \in 2..(i - 1) : s[j] \notin {"+", "="}
  ELSE 0

ParseAttributeValueOf(name, s) == Ok(<<Attribute(name, s)>>)

RECURSIVE ParseOptionOf(_)
ParseOptionOf(s) ==
  IF s = <<>> THEN Err("EmptyFlag")
  ELSE IF s[1] = "+" THEN Err("EmptyFlag")
  ELSE IF s[1] = "=" THEN Err("EmptyAttribute")
  ELSE LET i == FirstSpecial(s)
       IN IF i = 0 THEN Ok(<<Flag(s)>>)
          ELSE IF s[i] = "+"
               THEN LET r == ParseOptionOf(SubSeq(s, i + 1, Len(s)))
                    IN IF r.tag = "Err" THEN r
                       ELSE Ok(<<Flag(SubSeq(s, 1, i - 1))>> \o r.val)
               ELSE ParseAttributeValueOf(SubSeq(s, 1, i - 1), SubSeq(s, i + 1, Len(s)))

ParseArgumentOf(s) ==
  IF s = <<>> THEN Ok(<<Operand(<<>>)>>)
  ELSE IF s[1] = "+" THEN Err("EmptyFlag")
  ELSE IF s[1] = "=" THEN Err("EmptyAttribute")
  ELSE LET i == FirstSpecial(s)
       IN IF i = 0 THEN Ok(<<Operand(s)>>)
          ELSE IF s[i] = "+"
               THEN LET r == ParseOptionOf(SubSeq(s, i + 1, Len(s)))
                    IN IF r.tag = "Err" THEN r
                       ELSE Ok(<<Flag(SubSeq(s, 1, i - 1))>> \o r.val)
               ELSE ParseAttributeValueOf(SubSeq(s, 1, i - 1), SubSeq(s, i + 1, Len(s)))

RECURSIVE ParseShortOptionsOf(_)
ParseShortOptionsOf(s) ==
  IF s = <<>> THEN Ok(<<>>)
  ELSE IF s[1] = "=" THEN Err("EmptyAttribute")
  ELSE IF Len(s) >= 2
       THEN IF s[2] = "="
            THEN ParseAttributeValueOf(<<s[1]>>, SubSeq(s, 3, Len(s)))
            ELSE LET r == ParseShortOptionsOf(Tail(s))
                 IN IF r.tag = "Err" THEN r ELSE Ok(<<Flag(<<s[1]>>)>> \o r.val)
       ELSE Ok(<<Flag(<<s[1]>>)>>)

\* parse_arguments as a function of its tokens, out being the arguments
\* pushed so far.
RECURSIVE ParseArgumentsFrom(_, _)
ParseArgumentsFrom(out, tokens) ==
  IF tokens = <<>> THEN Ok(out)
  ELSE LET d == Dispatch(Head(tokens))
           s == IF d.iter.c = None THEN <<>> ELSE <<d.iter.c>> \o d.iter.iter
           r == IF d.pc = "parse_option" THEN ParseOptionOf(s)
                ELSE IF d.pc = "parse_short_options" THEN ParseShortOptionsOf(s)
                ELSE IF d.pc = "parse_argument" THEN ParseArgumentOf(s)
                ELSE Ok(<<Operand(<<>>)>>)
       IN IF d.pc = "rest"
          THEN Ok(out \o [k \in 1..(Len(tokens) - 1) |-> Operand(tokens[k + 1])])
          ELSE IF r.tag = "Err" THEN r
               ELSE ParseArgumentsFrom(out \o r.val, Tail(tokens))

ParseArgumentsOf(tokens) == ParseArgumentsFrom(<<>>, tokens)

----------------------------------------------------------------------------
Next ==
  \/ ParseArguments_for
  \/ ParseArguments_rest
  \/ ParseArguments_return
  \/ ParseShortOptions
  \/ ParseOption_first
  \/ ParseOption_loop
  \/ ParseArgument_first
  \/ ParseArgument_loop
  \/ ParseAttributeValue

Spec == Init /\ [][Next]_vars

\* Rerun with the output vector of the call before instead of a fresh one.
Rerun_KeepOutput ==
  /\ pc = "done"
  /\ previous = Pending
  /\ previous' = result
  /\ result' = Pending
  /\ args' = input
  /\ arguments' = result.val
  /\ mark' = 0
  /\ pc' = "for"
  /\ UNCHANGED <<input, iter, option, attribute, value, depth>>

\* parse_arguments is called once more with the same tokens: a new iterator
\* over them and a new, empty output vector.
Rerun ==
  /\ pc = "done"
  /\ previous = Pending
  /\ previous' = result
  /\ result' = Pending
  /\ args' = input
  /\ arguments' = <<>>
  /\ mark' = 0
  /\ pc' = "for"
  /\ UNCHANGED <<input, iter, option, attribute, value, depth>>

RerunNext == Next \/ Rerun

\* Two calls in a row, on the inputs of several tokens.
RerunInit ==
  /\ Init
  /\ Len(input) <= MaxTokens
  /\ Sum([i \in 1..Len(input) |-> Len(input[i])], Len(input)) <= MaxChars

RerunSpec == RerunInit /\ [][RerunNext]_vars

\* The parse is one thread that runs to its return: a step that can be taken
\* is taken.
FairSpec == Spec /\ WF_vars(Next)

TypeOK ==
  /\ IsInput(input)
  /\ pc \in {"for", "rest", "done", "parse_short_options", "parse_option",
             "parse_option_loop", "parse_argument", "parse_argument_loop",
             "parse_attribute_value"}
  /\ result.tag \in {"Pending", "Ok", "Err"}
  /\ (pc = "done") = (result # Pending)

----------------------------------------------------------------------------
\* Vocabulary of the properties

Done == pc = "done"

\* parse_arguments was called on the one token t and has returned.
Parsed(t) == Done /\ input = <<t>>

Drop(s, k) == SubSeq(s, k + 1, Len(s))

HasChar(s, ch) == \E i \in 1..Len(s) : s[i] = ch

FirstIndex(s, ch) == CHOOSE i \in 1..Len(s) : s[i] = ch /\ \A j \in 1..(i - 1) : s[j] # ch

StartsWith(s, p) == Len(s) >= Len(p) /\ SubSeq(s, 1, Len(p)) = p

\* A non-empty text without '+' and '='.
IsName(s) == s # <<>> /\ ~HasChar(s, "+") /\ ~HasChar(s, "=")

\* The pieces of s between its '+' characters.
RECURSIVE SplitPlus(_)
SplitPlus(s) ==
  IF HasChar(s, "+")
  THEN <<SubSeq(s, 1, FirstIndex(s, "+") - 1)>> \o SplitPlus(Drop(s, FirstIndex(s, "+")))
  ELSE <<s>>

\* s is n1 + "+" + n2 + ... + "+" + nk with every ni a name, k >= 1.
IsChain(s) == \A k \in 1..Len(SplitPlus(s)) : IsName(SplitPlus(s)[k])

Flags(names) == [k \in 1..Len(names) |-> Flag(names[k])]

Operands(tokens) == [k \in 1..Len(tokens) |-> Operand(tokens[k])]

Front(s) == SubSeq(s, 1, Len(s) - 1)

Last(s) == s[Len(s)]

IsTerminator(t) == t \in {<<"-">>, <<"-", "-">>, <<"+">>}

\* A token parse_argument emits as one Operand.
IsBare(t) == t = <<>> \/ (t[1] \notin {"-", "+"} /\ IsName(t))

\* The text of a token that follows its option prefix "--" or "+"; a token
\* without such a prefix is its own body.  "-" alone introduces short options.
HasLongPrefix(t) == StartsWith(t, <<"-", "-">>) \/ StartsWith(t, <<"+">>)

IsShort(t) == StartsWith(t, <<"-">>) /\ ~StartsWith(t, <<"-", "-">>)

Body(t) ==
  IF StartsWith(t, <<"-", "-">>) THEN Drop(t, 2)
  ELSE IF StartsWith(t, <<"+">>) \/ StartsWith(t, <<"-">>) THEN Drop(t, 1)
  ELSE t

----------------------------------------------------------------------------
\* C1: when the classification loop reaches a token that is exactly "-", "--"
\* or "+", it stops without emitting that token, and from then on every
\* remaining raw token is appended verbatim as an Operand, in input order,
\* until the call returns Ok with exactly those arguments.
C1_Terminator ==
  [][ /\ (pc = "for" /\ args # <<>> /\ IsTerminator(Head(args)))
        => (pc' = "rest" /\ arguments' = arguments /\ args' = Tail(args))
      /\ (pc = "rest")
        => \/ /\ pc' = "rest"
              /\ arguments' \o Operands(args') = arguments \o Operands(args)
              /\ Len(args') < Len(args)
           \/ /\ pc' = "done"
              /\ result' = Ok(arguments \o Operands(args)) ]_vars

\* A parse that returned after a terminator followed by two raw tokens, the
\* first of which begins with '-'.
C1_Witness ==
  /\ Done
  /\ Len(input) = 3
  /\ IsTerminator(input[1])
  /\ StartsWith(input[2], <<"-">>)
  /\ input[3] # <<>>
  /\ result = Ok(<<Operand(input[2]), Operand(input[3])>>)

\* C2 (as stated): parsing ["+"] returns the error EmptyFlag.
C2_Original == Parsed(<<"+">>) => result = Err("EmptyFlag")

\* C2 (amended): parsing ["+"] returns Ok with no arguments, the bare "+"
\* being a terminator.
C2_BarePlus == Parsed(<<"+">>) => result = Ok(<<>>)

C2_Witness == Parsed(<<"+">>) /\ result.tag = "Ok"

\* C3 (as stated): for every character c, parsing ["-" + c] returns
\* Ok([Flag(c)]).
C3_Original ==
  \A c \in Chars : Parsed(<<"-", c>>) => result = Ok(<<Flag(<<c>>)>>)

\* C3 (amended): for every character c other than '-' and '=', parsing
\* ["-" + c] returns Ok([Flag(c)]).
C3_SingleShort ==
  \A c \in Chars \ {"-", "="} : Parsed(<<"-", c>>) => result = Ok(<<Flag(<<c>>)>>)

C3_Witness == Parsed(<<"-", "+">>) /\ result = Ok(<<Flag(<<"+">>)>>)

\* C4 (as stated): for every non-empty name n and every value v, parsing
\* ["--" + n + "=" + v] returns Ok([Attribute(n, v)]).
C4_Original ==
  \A t \in {input[k] : k \in 1..Len(input)} : \A i \in 4..Len(t) :
    (Parsed(t) /\ StartsWith(t, <<"-", "-">>) /\ t[i] = "=")
      => result = Ok(<<Attribute(SubSeq(t, 3, i - 1), Drop(t, i))>>)

\* C4 (amended): for every non-empty name n containing neither '+' nor '='
\* and every value v, parsing ["--" + n + "=" + v] returns Ok([Attribute(n, v)]).
C4_LongAttribute ==
  \A t \in {input[k] : k \in 1..Len(input)} : \A i \in 4..Len(t) :
    (Parsed(t) /\ StartsWith(t, <<"-", "-">>) /\ t[i] = "="
       /\ IsName(SubSeq(t, 3, i - 1)))
      => result = Ok(<<Attribute(SubSeq(t, 3, i - 1), Drop(t, i))>>)

\* A value that holds '=' and '+'.
C4_Witness ==
  /\ Parsed(<<"-", "-", "a", "=", "=", "+">>)
  /\ result = Ok(<<Attribute(<<"a">>, <<"=", "+">>)>>)

\* C5: for every token t that does not start with '-' or '+' and contains
\* neither '+' nor '=' (the empty token included), parsing [t] returns
\* Ok([Operand(t)]).
C5_BareOperand ==
  \A t \in {input[k] : k \in 1..Len(input)} :
    (Parsed(t) /\ IsBare(t)) => result = Ok(<<Operand(t)>>)

C5_Witness ==
  /\ Parsed(<<"a", "-", "b">>)
  /\ result = Ok(<<Operand(<<"a", "-", "b">>)>>)

\* C6: for every non-empty name n containing neither '+' nor '=', parsing
\* ["--" + n] and parsing ["+" + n] both return Ok([Flag(n)]).
C6_LongFlag ==
  \A t \in {input[k] : k \in 1..Len(input)} :
    (Parsed(t) /\ HasLongPrefix(t) /\ IsName(Body(t)))
      => result = Ok(<<Flag(Body(t))>>)

C6_Witness ==
  \/ Parsed(<<"-", "-", "a", "b">>) /\ result = Ok(<<Flag(<<"a", "b">>)>>)
  \/ Parsed(<<"+", "-", "a">>) /\ result = Ok(<<Flag(<<"-", "a">>)>>)

\* C7: for non-empty names n1..nk without '+' and '=', parsing the token
\* "--" + n1 + "+" + ... + "+" + nk returns the flags Flag(n1), ..., Flag(nk)
\* in that order; when "=" + v follows, the last name is returned as
\* Attribute(nk, v) instead of Flag(nk).
C7_Chain ==
  \A t \in {input[k] : k \in 1..Len(input)} :
    (Parsed(t) /\ StartsWith(t, <<"-", "-">>))
      => LET b == Drop(t, 2)
             e == FirstIndex(b, "=")
             names == SplitPlus(SubSeq(b, 1, e - 1))
         IN /\ (~HasChar(b, "=") /\ IsChain(b))
                 => result = Ok(Flags(SplitPlus(b)))
            /\ (HasChar(b, "=") /\ IsChain(SubSeq(b, 1, e - 1)))
                 => result = Ok(Flags(Front(names))
                                  \o <<Attribute(Last(names), Drop(b, e))>>)

C7_Witness ==
  \/ /\ Parsed(<<"-", "-", "a", "+", "b">>)
     /\ result = Ok(<<Flag(<<"a">>), Flag(<<"b">>)>>)
  \/ /\ Parsed(<<"-", "-", "a", "+", "b", "=">>)
     /\ result = Ok(<<Flag(<<"a">>), Attribute(<<"b">>, <<>>)>>)

\* C8: for characters c1..ck, c1 not '-' and none of them '=', parsing
\* ["-" + c1...ck] returns Flag(c1), ..., Flag(ck); parsing
\* ["-" + c1...ck + "=" + v] returns Flag(c1), ..., Flag(c(k-1)),
\* Attribute(ck, v): only the last flag character carries the assignment.
C8_ShortBundle ==
  \A t \in {input[k] : k \in 1..Len(input)} :
    (Parsed(t) /\ IsShort(t) /\ Len(t) >= 2 /\ t[2] # "=")
      => LET b == Drop(t, 1)
             e == FirstIndex(b, "=")
             cs == IF HasChar(b, "=") THEN SubSeq(b, 1, e - 1) ELSE b
             one == [k \in 1..Len(cs) |-> <<cs[k]>>]
         IN result = IF HasChar(b, "=")
                     THEN Ok(Flags(Front(one)) \o <<Attribute(Last(one), Drop(b, e))>>)
                     ELSE Ok(Flags(one))

C8_Witness ==
  \/ /\ Parsed(<<"-", "a", "+", "-">>)
     /\ result = Ok(<<Flag(<<"a">>), Flag(<<"+">>), Flag(<<"-">>)>>)
  \/ /\ Parsed(<<"-", "a", "b", "=", "=", "b">>)
     /\ result = Ok(<<Flag(<<"a">>), Attribute(<<"b">>, <<"=", "b">>)>>)

\* Position p of the body b is where a name must begin: it is the first
\* position, or it follows a chain of names each closed by its separator '+'.
IsNameStart(t, p) ==
  LET b == Body(t)
  IN /\ p \in 1..(Len(b) + 1)
     /\ IF IsShort(t) THEN p = 1
        ELSE \/ p = 1
             \/ /\ p >= 3
                /\ b[p - 1] = "+"
                /\ IsChain(SubSeq(b, 1, p - 2))

\* The tokens before input[i] are bare operands, so that the classification
\* loop reaches input[i].
Reaches(i) == i \in 1..Len(input) /\ \A j \in 1..(i - 1) : IsBare(input[j])

\* C9: a token the loop classifies that has '=' where a name must begin
\* (first character of a plain token, directly after the prefix "-", "--" or
\* "+", or directly after a chain separator '+') makes parse_arguments
\* return Err(EmptyAttribute).
C9_EmptyAttribute ==
  \A i \in 1..Len(input) : \A p \in 1..Len(Body(input[i])) :
    (Done /\ Reaches(i) /\ IsNameStart(input[i], p) /\ Body(input[i])[p] = "=")
      => result = Err("EmptyAttribute")

C9_Witness ==
  /\ Done
  /\ result = Err("EmptyAttribute")
  /\ \/ input \in {<<<<"-", "=">>>>, <<<<"-", "-", "=">>>>, <<<<"+", "=">>>>, <<<<"=", "a">>>>}
     \/ input = <<<<"-", "-", "a", "+", "=", "b">>>>
     \/ input = <<<<"a">>, <<"-", "=">>>>

\* C10: a token the loop classifies in which a chain separator '+' (the '+'
\* that closes a name, or that directly follows the prefix "--" or "+") is the
\* last character or is directly followed by another '+' makes
\* parse_arguments return Err(EmptyFlag).
C10_EmptyFlag ==
  \A i \in 1..Len(input) : \A p \in 1..Len(Body(input[i])) :
    LET t == input[i]
        b == Body(t)
    IN (/\ Done /\ Reaches(i) /\ ~IsShort(t)
        /\ b[p] = "+"
        /\ IsNameStart(t, p + 1) \/ (p = 1 /\ HasLongPrefix(t))
        /\ p = Len(b) \/ b[p + 1] = "+")
         => result = Err("EmptyFlag")

C10_Witness ==
  /\ Done
  /\ result = Err("EmptyFlag")
  /\ input \in {<<<<"-", "-", "a", "+">>>>, <<<<"a", "+">>>>,
                <<<<"-", "-", "a", "+", "+", "b">>>>, <<<<"-", "-", "+">>>>}

----------------------------------------------------------------------------
\* The token t fails at position p of its body: a name must begin there and
\* the body has '+' or '=' there (a short option fails on '=' only), or the
\* body ends there after a chain separator.
FailsAt(t, p) ==
  LET b == Body(t)
  IN /\ IsNameStart(t, p)
     /\ IF p <= Len(b)
        THEN b[p] = "=" \/ (b[p] = "+" /\ ~IsShort(t))
        ELSE p > 1 /\ ~IsShort(t)

Fails(t) == \E p \in 1..(Len(Body(t)) + 1) : FailsAt(t, p)

ErrorOf(t) ==
  LET b == Body(t)
      p == CHOOSE q \in 1..(Len(b) + 1) : FailsAt(t, q)
  IN IF p <= Len(b) /\ b[p] = "=" THEN "EmptyAttribute" ELSE "EmptyFlag"

\* C11: when a token before the first terminator fails, parse_arguments
\* returns Err with the error kind of the first failing token in input order,
\* carries no Argument of the earlier tokens or token parts, and leaves the
\* later tokens in the iterator unexamined; a result is Ok or Err, never both.
C11_Propagation ==
  /\ Done => \/ result.tag = "Ok" /\ result.err = "-"
             \/ result.tag = "Err" /\ result.val = <<>> /\ arguments = <<>>
  /\ \A i \in 1..Len(input) :
       (/\ Done
        /\ \A j \in 1..(i - 1) : ~Fails(input[j]) /\ ~IsTerminator(input[j])
        /\ Fails(input[i]))
         => /\ result = Err(ErrorOf(input[i]))
            /\ args = SubSeq(input, i + 1, Len(input))

\* The second token fails after the first gave an Operand; the third would
\* fail with the other kind.
C11_Witness ==
  /\ Done
  /\ input = <<<<>>, <<"=">>, <<"+", "+">>>>
  /\ result = Err("EmptyAttribute")
  /\ args = <<<<"+", "+">>>>

----------------------------------------------------------------------------
Routines == {"parse_short_options", "parse_option", "parse_option_loop",
             "parse_argument", "parse_argument_loop", "parse_attribute_value"}

\* The token the classification loop took last.
Current == input[Len(input) - Len(args)]

\* The arguments emitted since that token was taken.
Contribution == SubSeq(arguments, mark + 1, Len(arguments))

Named(a) == a[1] \in {"Flag", "Attribute"}

\* C12: at every step of a parse and in every Ok result, every Flag and every
\* Attribute has a non-empty name, and what a short-option token has emitted
\* are Flags and Attributes with names of exactly one character.
C12_Names ==
  /\ \A k \in 1..Len(arguments) : Named(arguments[k]) => arguments[k][2] # <<>>
  /\ \A k \in 1..Len(result.val) : Named(result.val[k]) => result.val[k][2] # <<>>
  /\ (pc \in Routines \cup {"for"} /\ Len(args) < Len(input) /\ IsShort(Current))
       => \A k \in 1..Len(Contribution) :
            Named(Contribution[k]) /\ Len(Contribution[k][2]) = 1

\* In the middle of "-ab=...": one short Flag emitted, the value capture
\* running for the one-character attribute name.
C12_Witness ==
  /\ pc = "parse_attribute_value"
  /\ IsShort(Current)
  /\ attribute = <<"b">>
  /\ arguments = <<Flag(<<"a">>)>>

----------------------------------------------------------------------------
\* The characters the scanner has not consumed yet, the lookahead included.
Remaining(it) == IF it.c = None THEN 0 ELSE 1 + Len(it.iter)

IsSuffix(s, t) == Len(s) <= Len(t) /\ s = Drop(t, Len(t) - Len(s))

\* C13: parse_arguments terminates; every loop iteration and every call of a
\* routine consumes at least one character of the current token or finds it
\* exhausted, the scanner only moves forward, every iteration over args takes
\* one token, and the recursion depth never exceeds the token's length.
C13_Termination ==
  /\ <>Done
  /\ [](pc \in Routines => depth <= Len(Current))
  /\ [][ /\ (pc \in Routines)
           => \/ iter.c = None
              \/ /\ Remaining(iter') < Remaining(iter)
                 /\ IsSuffix(iter'.iter, iter.iter)
         /\ (pc \in {"for", "rest"} /\ args # <<>>) => args' = Tail(args) ]_vars

\* Three nested parse_option calls on the six characters of "+a+b+a".
C13_Witness ==
  /\ pc = "parse_option_loop"
  /\ depth = 3
  /\ Len(Current) = 6
  /\ Remaining(iter) = 0

----------------------------------------------------------------------------
----------------------------------------------------------------------------
\* The one token parsed is a chain of names, each closed by its separator
\* '+', directly followed by "=" and a value: "--a+=v", "+a+=v", "a+=v".
EqualsAfterSeparator(t) ==
  /\ ~IsShort(t)
  /\ \E p \in 3..Len(Body(t)) :
       /\ Body(t)[p] = "="
       /\ Body(t)[p - 1] = "+"
       /\ IsChain(SubSeq(Body(t), 1, p - 2))

\* C15 (as stated): when "=value" directly follows a chain separator,
\* parse_arguments returns the error EmptyFlag.
C15_Original ==
  \A t \in {input[k] : k \in 1..Len(input)} :
    (Parsed(t) /\ EqualsAfterSeparator(t)) => result = Err("EmptyFlag")

\* C15 (amended): when "=value" directly follows a chain separator,
\* parse_arguments returns the error EmptyAttribute.
C15_EqualsAfterSeparator ==
  \A t \in {input[k] : k \in 1..Len(input)} :
    (Parsed(t) /\ EqualsAfterSeparator(t)) => result = Err("EmptyAttribute")

C15_Witness ==
  /\ \/ Parsed(<<"-", "-", "a", "+", "=", "b">>)
     \/ Parsed(<<"a", "+", "=", "b">>)
  /\ result = Err("EmptyAttribute")

----------------------------------------------------------------------------
\* input[i] is the first terminator and no token before it fails.
FirstTerminator(i) ==
  /\ i \in 1..Len(input)
  /\ IsTerminator(input[i])
  /\ \A j \in 1..(i - 1) : ~Fails(input[j]) /\ ~IsTerminator(input[j])

\* C16 (as stated): parsing stops at a token with no characters after its
\* prefix, and this terminator token as well as all later raw tokens are
\* returned as Operands after the arguments of the tokens before it.
C16_Original ==
  \A i \in 1..Len(input) :
    (Done /\ FirstTerminator(i))
      => /\ result.tag = "Ok"
         /\ Drop(result.val, mark) = Operands(SubSeq(input, i, Len(input)))

\* C16 (amended): parsing stops at a token with no characters after its
\* prefix; this terminator token is not returned, and all later raw tokens
\* are returned as Operands after the arguments of the tokens before it.
C16_TerminatorDropped ==
  \A i \in 1..Len(input) :
    (Done /\ FirstTerminator(i))
      => /\ result.tag = "Ok"
         /\ Drop(result.val, mark) = Operands(SubSeq(input, i + 1, Len(input)))

C16_Witness ==
  /\ Done
  /\ input = <<<<"a">>, <<"-">>, <<"b">>>>
  /\ result = Ok(<<Operand(<<"a">>), Operand(<<"b">>)>>)

----------------------------------------------------------------------------
\* A non-empty token without an option prefix.
IsPlain(t) == t # <<>> /\ t[1] \notin {"-", "+"}

\* C17: a token without prefix of the form n1 + "+" + ... + "+" + nk, k >= 2,
\* all names non-empty and without '+' and '=', yields Flag(n1), ..., Flag(nk):
\* the name before the first '+' and the last name are Flags too.  A token
\* without prefix yields an Operand only when it holds no '+' and no '='.
C17_BareChain ==
  \A t \in {input[k] : k \in 1..Len(input)} :
    (Parsed(t) /\ IsPlain(t))
      => /\ (IsChain(t) /\ Len(SplitPlus(t)) >= 2)
              => result = Ok(Flags(SplitPlus(t)))
         /\ (\E k \in 1..Len(result.val) : result.val[k][1] = "Operand")
              => ~HasChar(t, "+") /\ ~HasChar(t, "=")

C17_Witness ==
  /\ Parsed(<<"a", "+", "b", "+", "a">>)
  /\ result = Ok(<<Flag(<<"a">>), Flag(<<"b">>), Flag(<<"a">>)>>)

----------------------------------------------------------------------------
\* The text the scanner still holds, the lookahead first.
Text(it) == IF it.c = None THEN <<>> ELSE <<it.c>> \o it.iter

\* C18: in every context the value capture starts with a non-empty name whose
\* '=' has been consumed; from there all remaining characters of the token
\* become the value verbatim, and the capture ends, without failing, by
\* appending the one Attribute(name, value) as the last argument of the token.
C18_ValueCapture ==
  [][ /\ (pc # "parse_attribute_value" /\ pc' = "parse_attribute_value")
        => /\ attribute' # <<>>
           /\ value' = <<>>
           /\ IsSuffix(attribute' \o <<"=">> \o Text(iter'), Current)
      /\ (pc = "parse_attribute_value")
        => \/ /\ pc' = "parse_attribute_value"
              /\ attribute' = attribute
              /\ arguments' = arguments
              /\ value' \o Text(iter') = value \o Text(iter)
           \/ /\ pc' = "for"
              /\ Text(iter) = <<>>
              /\ arguments' = Append(arguments, Attribute(attribute, value)) ]_vars

\* A bare token whose value holds '+', '=' and '-'.
C18_Witness ==
  /\ Parsed(<<"a", "=", "+", "=", "-">>)
  /\ result = Ok(<<Attribute(<<"a">>, <<"+", "=", "-">>)>>)

----------------------------------------------------------------------------
\* C19: for an input xs ++ ys where xs holds no terminator and parses to
\* Ok(A), the parse of the whole returns Ok(A ++ B) when ys parses to Ok(B)
\* and Err(e) when ys parses to Err(e): tokens before the terminator are
\* classified one by one, the first like any other, in token order.
C19_Independence ==
  \A k \in 0..Len(input) :
    LET xs == SubSeq(input, 1, k)
        ys == SubSeq(input, k + 1, Len(input))
        A == ParseArgumentsOf(xs)
        B == ParseArgumentsOf(ys)
    IN (/\ Done
        /\ \A j \in 1..k : ~IsTerminator(xs[j])
        /\ A.tag = "Ok")
         => result = IF B.tag = "Ok" THEN Ok(A.val \o B.val) ELSE B

\* An option token first, being no exception, and an operand; a failing
\* second part.
C19_Witness ==
  /\ Done
  /\ \/ /\ input = <<<<"-", "a">>, <<"b">>>>
        /\ result = Ok(<<Flag(<<"a">>), Operand(<<"b">>)>>)
     \/ /\ input = <<<<"a">>, <<"b", "+">>>>
        /\ result = Err("EmptyFlag")

----------------------------------------------------------------------------
AllFlags(c) == \A k \in 1..Len(c) : c[k][1] = "Flag"

\* One Operand, or Flags only, or Flags (none allowed) and then one Attribute.
IsTokenShape(c) ==
  /\ c # <<>>
  /\ \/ Len(c) = 1 /\ c[1][1] = "Operand"
     \/ AllFlags(c)
     \/ AllFlags(Front(c)) /\ Last(c)[1] = "Attribute"

\* C20: every classified token contributes at least one argument: a single
\* Operand, or a non-empty run of Flags, or a run of Flags followed by exactly
\* one Attribute; while a token is being classified only Flags have been
\* emitted for it, so nothing follows its Operand or its Attribute.
C20_TokenShape ==
  /\ (pc \in Routines) => AllFlags(Contribution)
  /\ (pc = "for" /\ Len(args) < Len(input)) => IsTokenShape(Contribution)
  /\ \A t \in {input[k] : k \in 1..Len(input)} :
       (Parsed(t) /\ ~IsTerminator(t) /\ result.tag = "Ok")
         => IsTokenShape(result.val)

\* The second token of an input has just given two Flags; a token has just
\* given a Flag and an Attribute.
C20_Witness ==
  /\ pc = "for"
  /\ Len(args) < Len(input)
  /\ \/ mark = 1 /\ Contribution = <<Flag(<<"a">>), Flag(<<"b">>)>>
     \/ Contribution = <<Flag(<<"a">>), Attribute(<<"b">>, <<>>)>>

====
